---- MODULE Spec2Model ----
(***************************************************************************)
(* Model of app.py: the /upload handler (upload_file) and the spectral     *)
(* subtraction routine it calls (ai_denoising_process).                    *)
(*                                                                         *)
(* One behaviour is one POST /upload request.  The librosa / numpy /       *)
(* soundfile calls are modelled by their effect on shapes and values:      *)
(*   librosa.stft(y, n_fft, hop_length)   1 + len(y) // hop_length frames  *)
(*                                        (center=True), 1 + n_fft // 2    *)
(*                                        bins                             *)
(*   librosa.magphase(D)                  |D| and the unit phasor D / |D|  *)
(*                                        (1 where D is 0)                 *)
(*   np.mean over an empty axis           NaN                              *)
(*   np.maximum(0, NaN)                   NaN                              *)
(*   librosa.istft(D, hop_length)         hop_length * (frames - 1)        *)
(*                                        samples (no length= argument)    *)
(* Real numbers are exact fractions with IEEE signs and NaN; spectral      *)
(* values lie on the real and imaginary axes (phases are quarter turns).   *)
(***************************************************************************)
EXTENDS Integers, Sequences, FiniteSets, TLC

\* ------------------------------------------------------------------ bounds
\* decoded clips have q * HOP_LENGTH + r samples, q <= MaxHops, r in Residues
MaxHops == 20
\* number of frequency bins kept per frame (the code has 1 + N_FFT \div 2)
NBins == 2
\* largest spectral magnitude of an input bin
MaxMag == 2
\* the leading frames 1..split (split <= MaxSplit) carry the "noise" level
MaxSplit == 2

Residues == {0, 1}

\* ------------------------------------------------------- program constants
N_FFT == 1024
HOP_LENGTH == 256
ALLOWED_EXTENSIONS == {"wav", "mp3", "flac", "ogg"}
UPLOAD_FOLDER == "uploads"

\* ------------------------------------------------------------ float values
\* a float is s * n / d with s the IEEE sign (kept on zero); d = 0 is NaN
NaN == [s |-> 1, n |-> 0, d |-> 0]
Flt(i) == [s |-> IF i < 0 THEN -1 ELSE 1, n |-> IF i < 0 THEN -i ELSE i, d |-> 1]
IsNaN(x) == x.d = 0
FNeg(x) == IF IsNaN(x) THEN NaN ELSE [x EXCEPT !.s = -x.s]
FMul(x, y) ==
    IF IsNaN(x) \/ IsNaN(y) THEN NaN
    ELSE [s |-> x.s * y.s, n |-> x.n * y.n, d |-> x.d * y.d]
FAdd(x, y) ==
    IF IsNaN(x) \/ IsNaN(y) THEN NaN
    ELSE LET v == x.s * x.n * y.d + y.s * y.n * x.d
         IN  IF v = 0
             THEN [s |-> IF x.s = -1 /\ y.s = -1 THEN -1 ELSE 1,
                   n |-> 0, d |-> x.d * y.d]
             ELSE [s |-> IF v < 0 THEN -1 ELSE 1,
                   n |-> IF v < 0 THEN -v ELSE v, d |-> x.d * y.d]
FSub(x, y) == FAdd(x, FNeg(y))
\* x / k for an integer count k; 0 / 0 is NaN
FDivInt(x, k) == IF IsNaN(x) THEN NaN ELSE [x EXCEPT !.d = x.d * k]
FEq(x, y) ==
    /\ ~IsNaN(x)
    /\ ~IsNaN(y)
    /\ x.s * x.n * y.d = y.s * y.n * x.d
\* x / y for a positive y
FDiv(x, y) ==
    IF IsNaN(x) \/ IsNaN(y) THEN NaN
    ELSE [s |-> x.s * y.s, n |-> x.n * y.d, d |-> x.d * y.n]
FGeqZero(x) == ~IsNaN(x) /\ (x.n = 0 \/ x.s = 1)
FPositive(x) == ~IsNaN(x) /\ x.n > 0 /\ x.s = 1

\* complex values and the unit phasors of the four quarter turns
Cx(re, im) == [re |-> re, im |-> im]
UnitPhasor(q) ==
    CASE q = 0 -> Cx(Flt(1), Flt(0))
      [] q = 1 -> Cx(Flt(0), Flt(1))
      [] q = 2 -> Cx(Flt(-1), Flt(0))
      [] q = 3 -> Cx(Flt(0), Flt(-1))
\* numpy multiplies a real array by a complex one as (x + 0j) * z
CMulReal(x, z) ==
    Cx(FSub(FMul(x, z.re), FMul(Flt(0), z.im)),
       FAdd(FMul(x, z.im), FMul(Flt(0), z.re)))
\* np.abs of an axis-aligned complex value
CAbs(z) == IF IsNaN(z.re) \/ IsNaN(z.im) THEN NaN
           ELSE [s |-> 1, n |-> z.re.n * z.im.d + z.im.n * z.re.d,
                 d |-> z.re.d * z.im.d]
\* np.angle in quarter turns (atan2 with signed zeros), -1 for NaN
Angle(z) ==
    IF IsNaN(z.re) \/ IsNaN(z.im) THEN -1
    ELSE IF z.im.n = 0 THEN (IF z.re.s = 1 THEN 0 ELSE 2)
    ELSE IF z.im.s = 1 THEN 1 ELSE 3

\* ------------------------------------------------------------ numpy/librosa
RECURSIVE SumFrames(_, _, _)
\* sum over the frames 1..k of bin b of a magnitude matrix
SumFrames(m, k, b) == IF k = 0 THEN Flt(0) ELSE FAdd(SumFrames(m, k - 1, b), m[k][b])

\* librosa.stft, center=True: the signal is padded by n_fft // 2 on both sides
FrameCount(n) == 1 + (n + 2 * (N_FFT \div 2) - N_FFT) \div HOP_LENGTH

\* librosa.magphase: magnitude, and the unit phasor (1 where the bin is 0)
MagOf(z) == CAbs(z)
PhaseOf(z) ==
    IF CAbs(z).n = 0 THEN UnitPhasor(0)
    ELSE Cx(FDiv(z.re, CAbs(z)), FDiv(z.im, CAbs(z)))

\* int(magnitude.shape[1] * 0.1)
NoiseFrameCount(n) == n \div 10

\* np.mean(noise_frames, axis=1, keepdims=True): NaN over no frames
NoiseMean(m, k) == [b \in 1..NBins |-> FDivInt(SumFrames(m, k, b), k)]

\* np.maximum(0, x) propagates NaN
Maximum0(x) == IF IsNaN(x) THEN NaN ELSE IF FPositive(x) THEN x ELSE Flt(0)

\* the over-subtraction factor 1.5
OverSubtraction == [s |-> 1, n |-> 3, d |-> 2]

\* clean_magnitude = np.maximum(0, magnitude - noise_magnitude_avg * 1.5)
SubtractNoise(m, noise) ==
    [f \in DOMAIN m |->
        [b \in 1..NBins |-> Maximum0(FSub(m[f][b], FMul(noise[b], OverSubtraction)))]]

\* variant: the cleaned magnitude is used as the spectrum, the phase is dropped
RecombineDropsPhase(cm, ph) ==
    [f \in DOMAIN cm |-> [b \in 1..NBins |-> CMulReal(cm[f][b], UnitPhasor(0))]]

\* stft_clean = clean_magnitude * phase
Recombine(cm, ph) ==
    [f \in DOMAIN cm |-> [b \in 1..NBins |-> CMulReal(cm[f][b], ph[f][b])]]

\* librosa.istft(stft_clean, hop_length): no length= argument, center=True
IstftLength(frames) == N_FFT + HOP_LENGTH * (frames - 1) - 2 * (N_FFT \div 2)

\* ------------------------------------------------------------- file system
NoPath == <<>>
EmptyFS == [p \in {} |-> <<>>]
\* f"{uuid}.{ext}", f"failed_denoise_{uuid}{ext}", f"denoised_{uuid}_clean.wav"
NoisyPath(u, ext) == <<UPLOAD_FOLDER, "", u, ".", ext>>
FailedPath(u, dotext) == <<UPLOAD_FOLDER, "failed_denoise_", u, dotext[1], dotext[2]>>
CleanPath(u) == <<UPLOAD_FOLDER, "denoised_", u, "_clean.", "wav">>
\* os.path.splitext(os.path.basename(p))[1]
SplitExt(p) == <<p[4], p[5]>>
\* os.path.basename
Basename(p) == SubSeq(p, 2, 5)

WriteFile(fs, p, c) == (p :> c) @@ fs
\* variant: the copy stops before the bytes of src are through
ShutilCopyTruncated(fs, src, dst) == (dst :> <<"partial">>) @@ fs
\* shutil.copy(src, dst): dst is created or overwritten with the bytes of src
ShutilCopy(fs, src, dst) == (dst :> fs[src]) @@ fs
PartialContent == <<"partial">>
WavContent(len) == <<"wav", len>>

\* ------------------------------------------------------------------ upload
FILENAMES == { <<"">>, <<"clip", "wav">>, <<"clip", "MP3">>, <<"notes", "txt">>,
               <<"noext">> }
Lower(s) == CASE s = "MP3" -> "mp3" [] s = "WAV" -> "wav" [] OTHER -> s
\* the filename is kept split at its dots: '.' in filename, rsplit('.', 1)[1]
allowed_file(name) ==
    /\ Len(name) > 1
    /\ Lower(name[Len(name)]) \in ALLOWED_EXTENSIONS

Stages == <<"Decoding", "Analyzing", "EstimatingNoise", "Subtracting",
            "Reconstructing", "Encoding">>

VARIABLES
    pc,                  \* position of the request / of the pipeline run
    filename,            \* request.files['audioFile'].filename, NoPath if absent
    files,               \* the upload folder: path -> bytes
    uuidCtr,             \* number of uuid.uuid4() calls made
    flashes,             \* flash() messages of the request
    resp,                \* response of the handler
    input_filepath,      \* argument of ai_denoising_process
    denoised_filepath,   \* its local variable
    y_len,               \* len(y), -1 before the load
    stft,                \* complex spectrogram, frame -> bin -> value
    magnitude,
    phase,
    noise_magnitude_avg,
    clean_magnitude,
    stft_clean,
    y_clean_len,         \* len(y_clean), -1 before istft
    ret,                 \* value returned by ai_denoising_process
    failedAt,            \* stage whose statement raised, "none" otherwise
    written,             \* paths ai_denoising_process has written to
    copied               \* the except block's shutil.copy completed

vars == <<pc, filename, files, uuidCtr, flashes, resp, input_filepath,
          denoised_filepath, y_len, stft, magnitude, phase, noise_magnitude_avg,
          clean_magnitude, stft_clean, y_clean_len, ret, failedAt, written, copied>>

request == <<filename, resp>>
fsys == <<files, uuidCtr>>
locals == <<input_filepath, denoised_filepath>>
signal == <<y_len, stft, magnitude, phase, noise_magnitude_avg, clean_magnitude,
            stft_clean, y_clean_len>>
outcome == <<ret, failedAt, written, copied>>

Init ==
    /\ pc = "Request"
    /\ filename = NoPath
    /\ files = EmptyFS
    /\ uuidCtr = 0
    /\ flashes = <<>>
    /\ resp = <<>>
    /\ input_filepath = NoPath
    /\ denoised_filepath = NoPath
    /\ y_len = -1
    /\ stft = <<>>
    /\ magnitude = <<>>
    /\ phase = <<>>
    /\ noise_magnitude_avg = <<>>
    /\ clean_magnitude = <<>>
    /\ stft_clean = <<>>
    /\ y_clean_len = -1
    /\ ret = NoPath
    /\ failedAt = "none"
    /\ written = {}
    /\ copied = FALSE

\* --------------------------------------------------------------- upload_file
\* 'audioFile' not in request.files
UploadNoFilePart ==
    /\ pc = "Request"
    /\ flashes' = Append(flashes, <<"No file part", "error">>)
    /\ resp' = <<"index">>
    /\ pc' = "Responded"
    /\ UNCHANGED <<filename, fsys, locals, signal, outcome>>

\* file.filename == ''
UploadNoSelectedFile ==
    /\ pc = "Request"
    /\ filename' = <<"">>
    /\ flashes' = Append(flashes, <<"No selected file", "error">>)
    /\ resp' = <<"index">>
    /\ pc' = "Responded"
    /\ UNCHANGED <<fsys, locals, signal, outcome>>

\* not allowed_file(file.filename)
UploadInvalidType ==
    /\ pc = "Request"
    /\ \E name \in FILENAMES :
          /\ name # <<"">>
          /\ ~allowed_file(name)
          /\ filename' = name
    /\ flashes' = Append(flashes, <<"Invalid file type", "error">>)
    /\ resp' = <<"index">>
    /\ pc' = "Responded"
    /\ UNCHANGED <<fsys, locals, signal, outcome>>

\* the noisy input is saved under a fresh name and the routine is called
UploadSave ==
    /\ pc = "Request"
    /\ \E name \in FILENAMES :
          /\ name # <<"">>
          /\ allowed_file(name)
          /\ filename' = name
          /\ LET noisy_filepath == NoisyPath(uuidCtr + 1, Lower(name[Len(name)]))
             IN  /\ files' = WriteFile(files, noisy_filepath, <<"upload", name>>)
                 /\ input_filepath' = noisy_filepath
    /\ uuidCtr' = uuidCtr + 1
    /\ pc' = "Idle"
    /\ UNCHANGED <<flashes, resp, denoised_filepath, signal, outcome>>

\* ------------------------------------------------------ ai_denoising_process
\* the fallback path is defined before the try block
Enter ==
    /\ pc = "Idle"
    /\ denoised_filepath' = FailedPath(uuidCtr + 1, SplitExt(input_filepath))
    /\ uuidCtr' = uuidCtr + 1
    /\ pc' = "Decoding"
    /\ UNCHANGED <<request, files, flashes, input_filepath, signal, outcome>>

\* y, sr = librosa.load(input_filepath, sr=16000)
Decode ==
    /\ pc = "Decoding"
    /\ \E q \in 0..MaxHops, r \in Residues : y_len' = q * HOP_LENGTH + r
    /\ pc' = "Analyzing"
    /\ UNCHANGED <<request, fsys, flashes, locals, stft, magnitude, phase,
                   noise_magnitude_avg, clean_magnitude, stft_clean, y_clean_len,
                   outcome>>

\* an axis-aligned spectral value of magnitude m and phase q quarter turns
AxisValue(m, q) ==
    IF m = 0 THEN Cx(Flt(0), Flt(0)) ELSE
    CASE q = 0 -> Cx(Flt(m), Flt(0))
      [] q = 1 -> Cx(Flt(0), Flt(m))
      [] q = 2 -> Cx(Flt(-m), Flt(0))
      [] q = 3 -> Cx(Flt(0), Flt(-m))

\* the spectrograms the transform may return for a clip of n frames: the
\* leading frames 1..split at level a, the others at level s
Spectrograms(n) ==
    { [f \in 1..n |-> [b \in 1..NBins |->
          AxisValue(((IF f <= split THEN a ELSE s) + b - 1) % (MaxMag + 1),
                    (p + f + b) % 4)]] :
      split \in 0..MaxSplit, a \in 0..MaxMag, s \in 0..MaxMag, p \in 0..3 }

\* stft = librosa.stft(...); magnitude, phase = librosa.magphase(stft)
Analyze ==
    /\ pc = "Analyzing"
    /\ \E D \in Spectrograms(FrameCount(y_len)) :
          /\ stft' = D
          /\ magnitude' = [f \in DOMAIN D |-> [b \in 1..NBins |-> MagOf(D[f][b])]]
          /\ phase' = [f \in DOMAIN D |-> [b \in 1..NBins |-> PhaseOf(D[f][b])]]
    /\ pc' = "EstimatingNoise"
    /\ UNCHANGED <<request, fsys, flashes, locals, y_len, noise_magnitude_avg,
                   clean_magnitude, stft_clean, y_clean_len, outcome>>

\* noise_frames = magnitude[:, :int(...)]; noise_magnitude_avg = np.mean(...)
EstimateNoise ==
    /\ pc = "EstimatingNoise"
    /\ noise_magnitude_avg' = NoiseMean(magnitude, NoiseFrameCount(Len(magnitude)))
    /\ pc' = "Subtracting"
    /\ UNCHANGED <<request, fsys, flashes, locals, y_len, stft, magnitude, phase,
                   clean_magnitude, stft_clean, y_clean_len, outcome>>

\* clean_magnitude = ...; stft_clean = clean_magnitude * phase
Subtract ==
    /\ pc = "Subtracting"
    /\ clean_magnitude' = SubtractNoise(magnitude, noise_magnitude_avg)
    /\ stft_clean' = Recombine(clean_magnitude', phase)
    /\ pc' = "Reconstructing"
    /\ UNCHANGED <<request, fsys, flashes, locals, y_len, stft, magnitude, phase,
                   noise_magnitude_avg, y_clean_len, outcome>>

\* y_clean = librosa.istft(stft_clean, hop_length=HOP_LENGTH)
Reconstruct ==
    /\ pc = "Reconstructing"
    /\ y_clean_len' = IstftLength(Len(stft_clean))
    /\ pc' = "Encoding"
    /\ UNCHANGED <<request, fsys, flashes, locals, y_len, stft, magnitude, phase,
                   noise_magnitude_avg, clean_magnitude, stft_clean, outcome>>

\* denoised_filepath is reassigned, then sf.write(denoised_filepath, y_clean, sr)
Encode ==
    /\ pc = "Encoding"
    /\ denoised_filepath' = CleanPath(uuidCtr + 1)
    /\ uuidCtr' = uuidCtr + 1
    /\ files' = WriteFile(files, denoised_filepath', WavContent(y_clean_len))
    /\ written' = written \cup {denoised_filepath'}
    /\ pc' = "Done"
    /\ UNCHANGED <<request, flashes, input_filepath, signal, ret, failedAt, copied>>

\* sf.write raises; the file at the reassigned path may have been created
EncodeFails ==
    /\ pc = "Encoding"
    /\ denoised_filepath' = CleanPath(uuidCtr + 1)
    /\ uuidCtr' = uuidCtr + 1
    /\ \/ UNCHANGED <<files, written>>
       \/ /\ files' = WriteFile(files, denoised_filepath', PartialContent)
          /\ written' = written \cup {denoised_filepath'}
    /\ failedAt' = "Encoding"
    /\ pc' = "Failed"
    /\ UNCHANGED <<request, flashes, input_filepath, signal, ret, copied>>

\* variant: the pipeline is started again when a statement raises
StageFailsRetries(stage) ==
    /\ pc = stage
    /\ failedAt' = stage
    /\ pc' = "Decoding"
    /\ UNCHANGED <<request, fsys, flashes, locals, signal, ret, written, copied>>

\* a statement of the given stage raises; control passes to the except block
StageFails(stage) ==
    /\ pc = stage
    /\ failedAt' = stage
    /\ pc' = "Failed"
    /\ UNCHANGED <<request, fsys, flashes, locals, signal, ret, written, copied>>

DecodeFails == StageFails("Decoding")
AnalyzeFails == StageFails("Analyzing")
EstimateNoiseFails == StageFails("EstimatingNoise")
SubtractFails == StageFails("Subtracting")
ReconstructFails == StageFails("Reconstructing")

\* return denoised_filepath
Return ==
    /\ pc = "Done"
    /\ ret' = denoised_filepath
    /\ pc' = "Returned"
    /\ UNCHANGED <<request, fsys, flashes, locals, signal, failedAt, written, copied>>

\* variant: the except block names its own fallback file
FallbackCopyFreshName ==
    /\ pc = "Failed"
    /\ flashes' = Append(flashes, <<"Processing failed", "error">>)
    /\ denoised_filepath' = FailedPath(uuidCtr + 1, SplitExt(input_filepath))
    /\ uuidCtr' = uuidCtr + 1
    /\ files' = ShutilCopy(files, input_filepath, denoised_filepath')
    /\ written' = written \cup {denoised_filepath'}
    /\ copied' = TRUE
    /\ ret' = denoised_filepath'
    /\ pc' = "Returned"
    /\ UNCHANGED <<request, input_filepath, signal, failedAt>>

\* except: flash, shutil.copy(input_filepath, denoised_filepath), return
FallbackCopy ==
    /\ pc = "Failed"
    /\ flashes' = Append(flashes, <<"Processing failed", "error">>)
    /\ files' = ShutilCopy(files, input_filepath, denoised_filepath)
    /\ written' = written \cup {denoised_filepath}
    /\ copied' = TRUE
    /\ ret' = denoised_filepath
    /\ pc' = "Returned"
    /\ UNCHANGED <<request, uuidCtr, locals, signal, failedAt>>

\* except: flash, then shutil.copy raises out of the except block
FallbackCopyFails ==
    /\ pc = "Failed"
    /\ flashes' = Append(flashes, <<"Processing failed", "error">>)
    /\ \/ UNCHANGED <<files, written>>
       \/ /\ files' = WriteFile(files, denoised_filepath, PartialContent)
          /\ written' = written \cup {denoised_filepath}
    /\ pc' = "Raised"
    /\ UNCHANGED <<request, uuidCtr, locals, signal, ret, failedAt, copied>>

\* ------------------------------------------------- upload_file, after the call
\* redirect(url_for('results', noisy_file=..., denoised_file=...))
RedirectResults ==
    /\ pc = "Returned"
    /\ resp' = <<"results", Basename(input_filepath), Basename(ret)>>
    /\ pc' = "Responded"
    /\ UNCHANGED <<filename, fsys, flashes, locals, signal, outcome>>

\* except Exception in upload_file: flash and redirect to the index page
UploadExcept ==
    /\ pc = "Raised"
    /\ flashes' = Append(flashes, <<"Error processing file", "error">>)
    /\ resp' = <<"index">>
    /\ pc' = "Responded"
    /\ UNCHANGED <<filename, fsys, locals, signal, outcome>>

Next ==
    \/ UploadNoFilePart
    \/ UploadNoSelectedFile
    \/ UploadInvalidType
    \/ UploadSave
    \/ Enter
    \/ Decode
    \/ DecodeFails
    \/ Analyze
    \/ AnalyzeFails
    \/ EstimateNoise
    \/ EstimateNoiseFails
    \/ Subtract
    \/ SubtractFails
    \/ Reconstruct
    \/ ReconstructFails
    \/ Encode
    \/ EncodeFails
    \/ Return
    \/ FallbackCopy
    \/ FallbackCopyFails
    \/ RedirectResults
    \/ UploadExcept

Spec == Init /\ [][Next]_vars

\* =================================================================== claims
StageSet == {Stages[i] : i \in DOMAIN Stages}
HasReturned == pc \in {"Returned", "Responded"} /\ ret # NoPath
Flashed(msg) == \E i \in DOMAIN flashes : flashes[i][1] = msg

\* C1: whenever a stage of ai_denoising_process raises, the run is in the
\* except block or past it, and when it returns the fallback copy was made and
\* the file at the returned path holds exactly the bytes of the input file.
C1_FallbackIsVerbatimCopy ==
    failedAt # "none" =>
        /\ pc \in {"Failed", "Returned", "Raised", "Responded"}
        /\ HasReturned =>
              /\ copied
              /\ ret \in DOMAIN files
              /\ files[ret] = files[input_filepath]
              /\ files[ret] = <<"upload", filename>>

C1_Witness ==
    /\ pc = "Returned"
    /\ failedAt = "Encoding"
    /\ copied
    /\ files[ret] = <<"upload", filename>>

\* C2: ai_denoising_process never raises to its caller, whatever fails,
\* the steps of the except block included.
C2_NeverRaises == pc # "Raised"

\* C3: an invocation that returns has written exactly one file, the one at
\* the returned path, holding either the encoded clean signal or the verbatim
\* copy of the input.
C3_ExactlyOneOutput ==
    HasReturned =>
        /\ written = {ret}
        /\ ret \in DOMAIN files
        /\ \/ ~copied /\ files[ret] = WavContent(y_clean_len)
           \/ copied /\ files[ret] = files[input_filepath]

C3_Witness ==
    /\ pc = "Returned"
    /\ failedAt = "Encoding"
    /\ ret = denoised_filepath
    /\ ret[2] = "denoised_"
    /\ written = {ret}

\* C4: the returned location marks the result as fallback (the
\* failed_denoise_ name) exactly when the fallback copy was made, and a
\* fallback has reported its cause.
C4_FallbackIndication ==
    HasReturned =>
        /\ (ret[2] = "failed_denoise_") <=> copied
        /\ copied => Flashed("Processing failed")

\* C5: after the subtraction every bin of every frame of clean_magnitude is
\* a number (not NaN) that is >= 0.
C5_CleanMagnitudeNonNegative ==
    \A f \in DOMAIN clean_magnitude : \A b \in 1..NBins :
        FGeqZero(clean_magnitude[f][b])

\* C6: the signal handed to the encoder has as many samples as the decoded
\* signal.
C6_EncodedLengthIsInputLength ==
    pc \in {"Encoding", "Done"} => y_clean_len = y_len

\* C7: a decoded signal of 1 .. N_FFT - 1 samples gives exactly one analysis
\* frame and, when the run succeeds, a non-empty encoded signal.
C7_ShortSignal ==
    (y_len >= 1 /\ y_len < N_FFT) =>
        /\ stft # <<>> => Len(stft) = 1
        /\ pc = "Done" => y_clean_len > 0

\* C8 (as stated): every bin of the cleaned spectrum has the phase of the
\* same bin of the original spectrum, bins clamped to zero included.
C8_PhasePreservedEverywhere ==
    \A f \in DOMAIN stft_clean : \A b \in 1..NBins :
        /\ Angle(stft_clean[f][b]) # -1
        /\ Angle(stft_clean[f][b]) = Angle(stft[f][b])

\* C8 (amended): every bin whose clean magnitude is a positive number has
\* the phase of the same bin of the original spectrum and the clean magnitude
\* as its modulus; a bin clamped to zero is the complex zero.
C8_PhasePreservedWherePositive ==
    \A f \in DOMAIN stft_clean : \A b \in 1..NBins :
        /\ FPositive(clean_magnitude[f][b]) =>
              /\ Angle(stft_clean[f][b]) # -1
              /\ Angle(stft_clean[f][b]) = Angle(stft[f][b])
              /\ FEq(CAbs(stft_clean[f][b]), clean_magnitude[f][b])
        /\ (~IsNaN(clean_magnitude[f][b]) /\ clean_magnitude[f][b].n = 0) =>
              /\ ~IsNaN(stft_clean[f][b].re) /\ stft_clean[f][b].re.n = 0
              /\ ~IsNaN(stft_clean[f][b].im) /\ stft_clean[f][b].im.n = 0

\* a positive bin a quarter turn off the real axis, next to a clamped bin
\* that was not zero before the subtraction
C8_Witness ==
    /\ pc = "Reconstructing"
    /\ \E f \in DOMAIN stft_clean : \E b \in 1..NBins :
          /\ FPositive(clean_magnitude[f][b])
          /\ Angle(stft[f][b]) = 1
    /\ \E f \in DOMAIN stft_clean : \E b \in 1..NBins :
          /\ ~IsNaN(clean_magnitude[f][b])
          /\ clean_magnitude[f][b].n = 0
          /\ magnitude[f][b].n > 0
          /\ Angle(stft[f][b]) = 3

\* C9: a run steps through Decoding, Analyzing, EstimatingNoise, Subtracting,
\* Reconstructing, Encoding, Done in this order, each stage entered with the
\* result of the one before it; any stage may step to Failed instead, and
\* from Failed the run only ends (returns after the copy, or raises).
C9_Successors(stage) ==
    CASE stage = "Idle" -> {"Decoding"}
      [] stage = "Decoding" -> {"Analyzing", "Failed"}
      [] stage = "Analyzing" -> {"EstimatingNoise", "Failed"}
      [] stage = "EstimatingNoise" -> {"Subtracting", "Failed"}
      [] stage = "Subtracting" -> {"Reconstructing", "Failed"}
      [] stage = "Reconstructing" -> {"Encoding", "Failed"}
      [] stage = "Encoding" -> {"Done", "Failed"}
      [] stage = "Done" -> {"Returned"}
      [] stage = "Failed" -> {"Returned", "Raised"}
      [] stage = "Request" -> {"Idle", "Responded"}
      [] stage = "Returned" -> {"Responded"}
      [] stage = "Raised" -> {"Responded"}
      [] OTHER -> {}

C9_Step ==
    /\ pc' \in C9_Successors(pc)
    /\ pc' = "Analyzing" => y_len' >= 0
    /\ pc' = "EstimatingNoise" => Len(magnitude') = FrameCount(y_len')
    /\ pc' = "Subtracting" => Len(noise_magnitude_avg') = NBins
    /\ pc' = "Reconstructing" => Len(stft_clean') = Len(magnitude')
    /\ pc' = "Encoding" => y_clean_len' >= 0
    /\ pc' = "Done" => denoised_filepath' \in DOMAIN files'
    /\ failedAt' # "none" => pc' \notin StageSet \cup {"Done"}
    /\ (pc = "Failed" /\ pc' = "Returned") => copied'

C9_StageOrder == [][C9_Step]_vars

C9_Witness ==
    /\ pc = "Returned"
    /\ failedAt = "Subtracting"
    /\ copied
    /\ clean_magnitude = <<>>

\* C10: the noise profile is the per-bin mean magnitude of the first
\* max(1, ceil(0.1 * frameCount)) frames.
C10_NoiseFrames(n) == IF (n + 9) \div 10 < 1 THEN 1 ELSE (n + 9) \div 10

C10_NoiseProfileOverLeadingFrames ==
    noise_magnitude_avg # <<>> =>
        \A b \in 1..NBins :
            FEq(noise_magnitude_avg[b],
                NoiseMean(magnitude, C10_NoiseFrames(Len(magnitude)))[b])

====
